---- MODULE Spec2Model ----
(***************************************************************************)
(* Model of the motor-characterisation laboratory:                         *)
(*   - Control_Analisis_Data.py : hampel, detectar_escalones, main         *)
(*   - Rp2040_Mpy_code.py       : ejecutar_captura and the console loop    *)
(*   - First_Code_Mpy.py        : incrementar_contador and calcular_rpm    *)
(* Sample indices are 0-based as in the Python code; TLA+ sequences are    *)
(* 1-based, so At(s, i) reads s[i+1].                                      *)
(***************************************************************************)
EXTENDS Integers, Sequences, FiniteSets, TLC

VARIABLES
    \* ---- Control_Analisis_Data.py : main / detectar_escalones
    duty,            \* df[pwm_col], the commanded duty cycle of every sample
    rpm,             \* df[rpm_col], the measured speed of every sample
    tramos,          \* result of detectar_escalones: sequence of <<ini, fin>>
    k,               \* position of the for loop of main in tramos (1-based)
    resultados,      \* list of the fitted models kept for the global curve
    log,             \* what main printed, one record per message
    fitCalls,        \* per tramo: how often ajustar_fopdt was called
    visited,         \* per tramo: how the loop body left it
    y_model_global,  \* the assembled trace before interpolation
    y_model_interp,  \* the assembled trace after interpolation
    pc,              \* position of the analysis script
    \* ---- Control_Analisis_Data.py : hampel (its locals)
    series, window_size, n_sigmas, med_rolling, diff, mad, mask,
    \* ---- Rp2040_Mpy_code.py
    paso_pwm,        \* argument of ejecutar_captura
    secuencia,       \* the sweep built by ejecutar_captura
    pos,             \* position of the for loop over secuencia (1-based)
    pwm_duty,        \* duty cycle currently on the pin, in percent
    modo_captura,    \* global flag
    pwm_manual,      \* global: duty cycle of the manual mode, in percent
    aplicados,       \* duty cycles applied by the current / last capture
    fin,             \* how the last capture ended
    fpc,             \* position of the firmware
    \* ---- First_Code_Mpy.py
    contador,        \* global count of encoder edges
    leido,           \* the value of contador that calcular_rpm read (line 74)
    rpm_calc,        \* what the last completed calcular_rpm returned
    disparos,        \* how many encoder interrupts have fired
    usados,          \* sum of the counts used by the completed calcular_rpm
    epc,             \* position of the polling code in calcular_rpm
    \* ---- Control_Analisis_Data.py : the cleaning of one tramo in main
    y_clean,         \* the samples of the tramo that hampel kept
    rama             \* the branch taken on line 153

analysisVars == <<duty, rpm, tramos, k, resultados, log, fitCalls, visited,
                  y_model_global, y_model_interp, pc>>
hampelVars   == <<series, window_size, n_sigmas, med_rolling, diff, mad, mask>>
firmwareVars == <<paso_pwm, secuencia, pos, pwm_duty, modo_captura, pwm_manual,
                  aplicados, fin, fpc>>
encoderVars  == <<contador, leido, rpm_calc, disparos, usados, epc>>
cleanVars    == <<y_clean, rama>>
vars == <<analysisVars, hampelVars, firmwareVars, encoderVars, cleanVars>>

\* ------------------------------------------------------------------ bounds
MaxDutyLen == 5        \* longest duty sequence given to the segmenter alone
DutyValues == {0, 1, 2}

\* ----------------------------------------------------------------- helpers
At(s, i) == s[i + 1]

\* A function over 1..n as an explicit tuple (same value, evaluated once).
Tuple(f) == f \o <<>>

\* Op applied to the value of v, v being evaluated once however often Op
\* reads its argument.
Bind(v, Op(_)) == CHOOSE r \in {Op(x) : x \in {v}} : TRUE

\* All sequences over S of length 1..n
SeqsUpTo(S, n) == UNION {[1..m -> S] : m \in 1..n}

\* NaN is the empty tuple; a defined float x is the one-element tuple <<x>>.
NaN == <<>>
IsNaN(x) == x = <<>>

\* ---- idle values of the parts a specification does not use
AnalysisIdle ==
    /\ duty = <<>> /\ rpm = <<>> /\ tramos = <<>> /\ k = 0
    /\ resultados = <<>> /\ log = <<>> /\ fitCalls = <<>> /\ visited = <<>>
    /\ y_model_global = <<>> /\ y_model_interp = <<>> /\ pc = "idle"

HampelIdle ==
    /\ series = <<>> /\ window_size = 0 /\ n_sigmas = 0
    /\ med_rolling = <<>> /\ diff = <<>> /\ mad = <<>> /\ mask = <<>>

FirmwareIdle ==
    /\ paso_pwm = 0 /\ secuencia = <<>> /\ pos = 0 /\ pwm_duty = 0
    /\ modo_captura = FALSE /\ pwm_manual = 0
    /\ aplicados = <<>> /\ fin = "none"
    /\ fpc = "idle"

EncoderIdle ==
    /\ contador = 0 /\ leido = 0 /\ rpm_calc = 0
    /\ disparos = 0 /\ usados = 0 /\ epc = "idle"

CleanIdle == y_clean = <<>> /\ rama = "none"

\* ------------------------------------------------------------------ hampel
\* Bounds of the inputs given to hampel alone.
MaxSeriesLen == 7      \* longest series
MaxWindow == 4         \* largest window_size
SeriesValues == {0, 1, 3}
NSigmas == {0, 1, 3}

\* k = 1.4826 (line 43) as the fraction kNum / kDen
kNum == 14826
kDen == 10000

Abs(x) == IF x < 0 THEN 0 - x ELSE x

\* how many entries of w are below v / not above v
CountLt(w, v) == Cardinality({j \in 1..Len(w) : w[j] < v})
CountLe(w, v) == Cardinality({j \in 1..Len(w) : w[j] <= v})

\* the r-th smallest entry of w, r = 1..Len(w)
Kth(w, r) ==
    CHOOSE v \in {w[j] : j \in 1..Len(w)} :
        CountLt(w, v) < r /\ CountLe(w, v) >= r

\* Twice the median of the non-empty sequence w (the median of an even
\* number of values is the mean of the two middle ones; twice it is an
\* integer).
Median2(w0) ==
    Bind(w0, LAMBDA w :
        IF Len(w) % 2 = 1
        THEN 2 * Kth(w, (Len(w) + 1) \div 2)
        ELSE Kth(w, Len(w) \div 2) + Kth(w, Len(w) \div 2 + 1))

\* The window of rolling(W, center=True) at index i is
\* [i - W + 1 + offset, i + offset] with offset = (W - 1) // 2.
WindowLo(i, W) == i - W + 1 + ((W - 1) \div 2)
WindowHi(i, W) == i + ((W - 1) \div 2)

\* The rolling median had min_periods been 1: the window is cut at the ends of
\* the series and NaN entries are dropped.
RECURSIVE Defined(_, _, _)
Defined(s, lo, hi) ==
    IF lo > hi THEN <<>>
    ELSE (IF IsNaN(At(s, lo)) THEN <<>> ELSE <<At(s, lo)[1]>>)
         \o Defined(s, lo + 1, hi)

Max(a, b) == IF a > b THEN a ELSE b
Min(a, b) == IF a < b THEN a ELSE b

RollingMedian2MinPeriods1(s0, W) ==
    Bind(s0, LAMBDA s : Tuple([i1 \in 1..Len(s) |->
        Bind(Defined(s, Max(WindowLo(i1 - 1, W), 0),
                        Min(WindowHi(i1 - 1, W), Len(s) - 1)),
             LAMBDA w : IF w = <<>> THEN NaN ELSE <<Median2(w)>>)]))

\* s.rolling(W, center=True).median() of a series of NaN | <<x>>, each
\* defined result being TWICE the median.  min_periods defaults to W: the
\* result is NaN where the window leaves the series or holds a NaN.
RollingMedian2(s0, W) ==
    Bind(s0, LAMBDA s : Tuple([i1 \in 1..Len(s) |->
        LET lo == WindowLo(i1 - 1, W)
            hi == WindowHi(i1 - 1, W)
        IN  IF lo < 0 \/ hi > Len(s) - 1 THEN NaN
            ELSE IF \E j \in lo..hi : IsNaN(At(s, j)) THEN NaN
            ELSE <<Median2(Tuple([j \in 1..W |-> At(s, lo + j - 1)[1]]))>>]))

\* line 44: med_rolling, in units of 1/2
MedRolling(y, W) ==
    RollingMedian2(Tuple([i \in 1..Len(y) |-> <<y[i]>>]), W)

\* line 45: diff = np.abs(series - med_rolling), in units of 1/2
Diff(y0, med0) ==
    Bind(<<y0, med0>>, LAMBDA a : LET y == a[1]  med == a[2] IN
        Tuple([i \in 1..Len(y) |->
            IF IsNaN(med[i]) THEN NaN ELSE <<Abs(2 * y[i] - med[i][1])>>]))

\* line 46 had the rolling median of diff taken over the defined part of each
\* window (min_periods = 1)
MadMinPeriods1(d, W) ==
    Bind(RollingMedian2MinPeriods1(d, W), LAMBDA m :
        Tuple([i \in 1..Len(m) |->
            IF IsNaN(m[i]) THEN NaN ELSE <<kNum * m[i][1]>>]))

\* line 46: mad = k * diff.rolling(W, center=True).median(), in units of
\* 1 / (4 * kDen): the rolling median doubles the unit of diff once more.
Mad(d, W) ==
    Bind(RollingMedian2(d, W), LAMBDA m :
        Tuple([i \in 1..Len(m) |->
            IF IsNaN(m[i]) THEN NaN ELSE <<kNum * m[i][1]>>]))

\* line 47 with >= in place of >
FlagGe(d, m, n) ==
    /\ ~IsNaN(d) /\ ~IsNaN(m)
    /\ 2 * kDen * d[1] >= n * m[1]

\* line 47: diff > n_sigmas * mad, then fillna(False).  A comparison with NaN
\* is False.  Both sides are brought to the unit 1 / (4 * kDen).

Flag(d, m, n) ==
    /\ ~IsNaN(d) /\ ~IsNaN(m)
    /\ 2 * kDen * d[1] > n * m[1]

hampel(y, W, n) ==
    Bind(MedRolling(y, W), LAMBDA med :
    Bind(Diff(y, med),     LAMBDA d :
    Bind(Mad(d, W),        LAMBDA m :
        Tuple([i \in 1..Len(d) |-> Flag(d[i], m[i], n)]))))

\* hampel called on its own: every statement of the function, its locals kept.
Hampel ==
    /\ pc = "hampel"
    /\ med_rolling' = MedRolling(series, window_size)
    /\ diff' = Diff(series, med_rolling')
    /\ mad' = Mad(diff', window_size)
    /\ mask' = [i \in 1..Len(series) |-> Flag(diff'[i], mad'[i], n_sigmas)]
    /\ pc' = "hampel_done"
    /\ UNCHANGED <<series, window_size, n_sigmas>>
    /\ UNCHANGED <<duty, rpm, tramos, k, resultados, log, fitCalls, visited,
                   y_model_global, y_model_interp>>
    /\ UNCHANGED <<firmwareVars, encoderVars, cleanVars>>

InitHampel ==
    /\ series \in SeqsUpTo(SeriesValues, MaxSeriesLen)
    /\ window_size \in 1..MaxWindow
    /\ n_sigmas \in NSigmas
    /\ med_rolling = <<>> /\ diff = <<>> /\ mad = <<>> /\ mask = <<>>
    /\ duty = <<>> /\ rpm = <<>> /\ tramos = <<>> /\ k = 0
    /\ resultados = <<>> /\ log = <<>> /\ fitCalls = <<>> /\ visited = <<>>
    /\ y_model_global = <<>> /\ y_model_interp = <<>> /\ pc = "hampel"
    /\ FirmwareIdle /\ EncoderIdle /\ CleanIdle

SpecHampel == InitHampel /\ [][Hampel]_vars

HampelDone == pc = "hampel_done"

\* C3 as stated: whenever the local robust scale at an index is exactly zero,
\* the index is not flagged, whatever its own deviation is.
C3_ZeroScaleNeverFlagged ==
    HampelDone =>
        \A i \in 1..Len(series) : mad[i] = <<0>> => mask[i] = FALSE

\* C3 as amended: where the local scale is exactly zero, the index is flagged
\* exactly when its own deviation from the local median is non-zero.
C3_ZeroScaleFlagsAnyDeviation ==
    HampelDone =>
        \A i \in 1..Len(series) :
            mad[i] = <<0>> => (mask[i] <=> diff[i][1] > 0)

C3_Witness ==
    /\ HampelDone
    /\ \E i \in 1..Len(series) : mad[i] = <<0>> /\ diff[i][1] > 0 /\ mask[i]
    /\ \E i \in 1..Len(series) : mad[i] = <<0>> /\ diff[i][1] = 0 /\ ~mask[i]

\* C9: for an odd window W, no index i with i < (W-1)/2 or i >= N - (W-1)/2
\* is flagged, and a series shorter than W gets an all-False mask.
C9_BoundaryNeverFlagged ==
    (HampelDone /\ window_size % 2 = 1) =>
        LET N == Len(series)
            h == (window_size - 1) \div 2
        IN  /\ \A i \in 0..(N - 1) :
                  (i < h \/ i >= N - h) => At(mask, i) = FALSE
            /\ N < window_size => \A i \in 0..(N - 1) : At(mask, i) = FALSE

C9_Witness ==
    /\ HampelDone
    /\ window_size = 3
    /\ Len(series) >= window_size
    /\ \E i \in 1..Len(series) : mask[i]
    /\ mask[1] = FALSE /\ mask[Len(series)] = FALSE

\* ------------------------------------------------------ detectar_escalones
\* line 101 had the comparison been > 0: only a rising duty is a change
CambioRising(d, i) == i > 0 /\ At(d, i) > At(d, i - 1)

\* cambio = df[pwm_col].diff().fillna(0) != 0 : the diff of sample 0 is NaN,
\* which fillna turns into 0, so sample 0 is never a change.
Cambio(d, i) == i > 0 /\ At(d, i) # At(d, i - 1)

\* pasos = np.where(cambio)[0], in ascending order, from index i on
RECURSIVE Where(_, _)
Where(d, i) ==
    IF i >= Len(d) THEN <<>>
    ELSE (IF Cambio(d, i) THEN <<i>> ELSE <<>>) \o Where(d, i + 1)

detectar_escalones(d) ==
    LET pasos == Where(d, 0) \o <<Len(d)>>
    IN  [i \in 1..(Len(pasos) - 1) |-> <<pasos[i], pasos[i + 1]>>]

\* main, line 130: tramos = detectar_escalones(df, pwm_col); resultados = []
DetectarEscalones ==
    /\ pc = "start"
    /\ tramos' = detectar_escalones(duty)
    /\ k' = 1
    /\ resultados' = <<>>
    /\ fitCalls' = [s \in 1..Len(tramos') |-> 0]
    /\ visited' = [s \in 1..Len(tramos') |-> "pending"]
    /\ pc' = "loop"
    /\ UNCHANGED <<duty, rpm, log, y_model_global, y_model_interp>>
    /\ UNCHANGED <<hampelVars, firmwareVars, encoderVars, cleanVars>>

\* The segmenter alone, on every duty sequence of length 1..MaxDutyLen.
InitSeg ==
    /\ duty \in SeqsUpTo(DutyValues, MaxDutyLen)
    /\ rpm = [i \in 1..Len(duty) |-> 0]
    /\ tramos = <<>> /\ k = 0
    /\ resultados = <<>> /\ log = <<>> /\ fitCalls = <<>> /\ visited = <<>>
    /\ y_model_global = <<>> /\ y_model_interp = <<>> /\ pc = "start"
    /\ HampelIdle /\ FirmwareIdle /\ EncoderIdle /\ CleanIdle

SpecSeg == InitSeg /\ [][DetectarEscalones]_vars

Segmented == pc = "loop" /\ k = 1

\* C1: for every non-empty duty sequence of length N the returned ranges
\* partition [0, N): the first begins at 0, each ends where the next begins,
\* the last ends at N.
C1_Partition ==
    Segmented =>
        /\ Len(tramos) >= 1
        /\ tramos[1][1] = 0
        /\ \A s \in 1..(Len(tramos) - 1) : tramos[s][2] = tramos[s + 1][1]
        /\ tramos[Len(tramos)][2] = Len(duty)

\* C2: an index i with 0 < i < N starts a returned range iff duty[i] differs
\* from duty[i-1]; hence the duty is constant inside every returned range and
\* two consecutive returned ranges carry different duty values.
C2_SplitAtChanges ==
    Segmented =>
        /\ \A i \in 1..(Len(duty) - 1) :
              (\E s \in 1..Len(tramos) : tramos[s][1] = i)
                  <=> (At(duty, i) # At(duty, i - 1))
        /\ \A s \in 1..Len(tramos) :
              \A i \in tramos[s][1]..(tramos[s][2] - 1) :
                  At(duty, i) = At(duty, tramos[s][1])
        /\ \A s \in 1..(Len(tramos) - 1) :
              At(duty, tramos[s][1]) # At(duty, tramos[s + 1][1])

C2_Witness ==
    /\ Segmented
    /\ Len(tramos) >= 2
    /\ \E s \in 1..Len(tramos) : tramos[s][2] - tramos[s][1] >= 2


\* -------------------------------------------------------------------- main
\* Inputs of main: the record of a sweep.  The duty cycle is a sequence of
\* runs, run r holding Level(r) for one of RunLens samples; the speed follows
\* the duty and reads one unit high at sample `glitch` of every run.
MaxRuns == 4
RunLens == {7, 8, 13}
Glitches == {7}
\* what a converging fit may return: gain K and delay theta (in samples)
FitParams == {[K |-> 1, theta |-> 0], [K |-> 2, theta |-> 1]}

\* thresholds and parameters of main
MinRawLen == 8         \* line 136
MinClean == 5          \* line 153
HampelWindow == 7      \* line 151
HampelSigmas == 3      \* line 151

Level(r) == LET m == (r - 1) % 4 IN 10 * (IF m <= 2 THEN m ELSE 4 - m)

RECURSIVE DutyRuns(_, _)
DutyRuns(lens, r) ==
    IF r > Len(lens) THEN <<>>
    ELSE [j \in 1..lens[r] |-> Level(r)] \o DutyRuns(lens, r + 1)

RECURSIVE RpmRuns(_, _, _)
RpmRuns(lens, g, r) ==
    IF r > Len(lens) THEN <<>>
    ELSE [j \in 1..lens[r] |-> Level(r) + (IF j = g THEN 1 ELSE 0)]
         \o RpmRuns(lens, g, r + 1)

InitMain ==
    /\ \E lens \in SeqsUpTo(RunLens, MaxRuns), g \in Glitches :
          /\ duty = DutyRuns(lens, 1)
          /\ rpm = RpmRuns(lens, g, 1)
    /\ tramos = <<>> /\ k = 0
    /\ resultados = <<>> /\ log = <<>> /\ fitCalls = <<>> /\ visited = <<>>
    /\ y_model_global = <<>> /\ y_model_interp = <<>> /\ pc = "start"
    /\ HampelIdle /\ FirmwareIdle /\ EncoderIdle /\ CleanIdle

\* step_response (lines 65-68) at sample time t (in samples from the start of
\* the tramo): y0 before the delay theta, y0 + K*du*(1 - exp(-(t-theta)/tau))
\* from it on.  The exponential rise is 0 at t = theta; its values in (0, 1)
\* for t > theta are taken at their limit 1 (tau small against one sample).
step_response(t, K, theta, y0, du) ==
    IF t < theta THEN y0
    ELSE y0 + K * du * (IF t = theta THEN 0 ELSE 1)

\* line 136 with the threshold one sample lower
TooShortBelow7(len) == len < MinRawLen - 1
\* line 136: a tramo too short to be fitted
TooShort(len) == len < MinRawLen

\* The end of one pass through the loop body (a `continue`, or its last line).
Leave(how, msgs, res, calls) ==
    /\ visited' = [visited EXCEPT ![k] = how]
    /\ log' = log \o msgs
    /\ resultados' = res
    /\ fitCalls' = [fitCalls EXCEPT ![k] = @ + calls]
    /\ k' = k + 1
    /\ pc' = "loop"

\* lines 136-137 had they printed a warning before `continue`
SkipShortWarned ==
    Leave("short", <<[kind |-> "WARN", tramo |-> k]>>, resultados, 0)

\* lines 136-137: `continue`, nothing is printed
SkipShort == Leave("short", <<>>, resultados, 0)

\* lines 159-161 without the handler: the error leaves main.
OnRuntimeErrorAbort ==
    /\ visited' = [visited EXCEPT ![k] = "noconv"]
    /\ fitCalls' = [fitCalls EXCEPT ![k] = @ + 1]
    /\ pc' = "aborted"
    /\ UNCHANGED <<log, resultados, k>>

\* lines 157-161: ajustar_fopdt raises RuntimeError (curve_fit did not
\* converge); the message is printed and the loop continues.
OnRuntimeError ==
    Leave("noconv", <<[kind |-> "ERR", tramo |-> k]>>, resultados, 1)

\* lines 134-187: one pass through the body of the loop over tramos.
ProcessTramo ==
    /\ pc = "loop"
    /\ k <= Len(tramos)
    /\ LET idx_start == tramos[k][1]
           idx_end   == tramos[k][2]
           pwm_new   == At(duty, idx_start)
           pwm_prev  == IF idx_start > 0 THEN At(duty, idx_start - 1)
                        ELSE pwm_new
           du        == pwm_new - pwm_prev
           y         == SubSeq(rpm, idx_start + 1, idx_end)
           y0        == y[1]
           outlier   == hampel(y, HampelWindow, HampelSigmas)
           n_clean   == Cardinality({i \in 1..Len(y) : ~outlier[i]})
       IN  IF TooShort(idx_end - idx_start)
           THEN SkipShort
           ELSE IF du = 0
           THEN Leave("du0", <<>>, resultados, 0)
           ELSE IF n_clean < MinClean
           THEN Leave("few_clean", <<[kind |-> "WARN", tramo |-> k]>>,
                      resultados, 0)
           ELSE \/ OnRuntimeError
                \/ \E popt \in FitParams :
                      Leave("ok", <<[kind |-> "OK", tramo |-> k]>>,
                            Append(resultados,
                                   [slice |-> <<idx_start, idx_end>>,
                                    K |-> popt.K, theta |-> popt.theta,
                                    y0 |-> y0, du |-> du,
                                    t0 |-> idx_start]),
                            1)
    /\ UNCHANGED <<duty, rpm, tramos, y_model_global, y_model_interp>>
    /\ UNCHANGED <<hampelVars, firmwareVars, encoderVars, cleanVars>>

\* lines 191-197: np.full(len(df), nan), then every result writes its slice,
\* in the order of resultados (a later result overwrites an earlier one).
RECURSIVE Ensamblar(_, _, _)
Ensamblar(g0, res, j) ==
    Bind(g0, LAMBDA g :
        IF j > Len(res) THEN g
        ELSE LET r == res[j]
             IN  Ensamblar(
                     Tuple([i1 \in 1..Len(g) |->
                         IF r.slice[1] <= i1 - 1 /\ i1 - 1 < r.slice[2]
                         THEN <<step_response((i1 - 1) - r.t0, r.K, r.theta,
                                              r.y0, r.du)>>
                         ELSE g[i1]]),
                     res, j + 1))

\* nearest defined index before / after i (1-based), 0 when there is none
PrevValid(g, i) ==
    LET S == {j \in 1..(i - 1) : ~IsNaN(g[j])}
    IN  IF S = {} THEN 0 ELSE CHOOSE j \in S : \A j2 \in S : j2 <= j
NextValid(g, i) ==
    LET S == {j \in (i + 1)..Len(g) : ~IsNaN(g[j])}
    IN  IF S = {} THEN 0 ELSE CHOOSE j \in S : \A j2 \in S : j2 >= j

\* The interpolation had it been called with limit_direction='both' (leading
\* NaN take the first valid value), and with method='pad' (every NaN takes the
\* last valid value).
InterpolateBoth(g) ==
    Tuple([i \in 1..Len(g) |->
        IF ~IsNaN(g[i]) THEN <<g[i][1], 1>>
        ELSE Bind(<<PrevValid(g, i), NextValid(g, i)>>, LAMBDA n :
             LET p == n[1]
                 q == n[2]
             IN  IF p = 0 /\ q = 0 THEN NaN
                 ELSE IF p = 0 THEN <<g[q][1], 1>>
                 ELSE IF q = 0 THEN <<g[p][1], 1>>
                 ELSE <<g[p][1] * (q - p) + (g[q][1] - g[p][1]) * (i - p),
                        q - p>>)])

InterpolatePad(g) ==
    Tuple([i \in 1..Len(g) |->
        IF ~IsNaN(g[i]) THEN <<g[i][1], 1>>
        ELSE Bind(PrevValid(g, i), LAMBDA p :
                 IF p = 0 THEN NaN ELSE <<g[p][1], 1>>)])

\* line 201: pd.Series(g).interpolate(method='linear'), whose defaults are
\* limit_direction='forward' and limit_area=None.  A defined value is kept; a
\* NaN between two defined values lies on the line through them (the values
\* are taken as equally spaced); a NaN after the last defined value takes
\* that value; a NaN before the first defined value stays NaN.  A result is
\* the fraction <<numerator, denominator>>.
Interpolate(g) ==
    Tuple([i \in 1..Len(g) |->
        IF ~IsNaN(g[i]) THEN <<g[i][1], 1>>
        ELSE Bind(<<PrevValid(g, i), NextValid(g, i)>>, LAMBDA n :
             LET p == n[1]
                 q == n[2]
             IN  IF p = 0 THEN NaN
                 ELSE IF q = 0 THEN <<g[p][1], 1>>
                 ELSE <<g[p][1] * (q - p) + (g[q][1] - g[p][1]) * (i - p),
                        q - p>>)])

\* lines 190-215: after the loop, the global curve, or the note that there is
\* none.
GraficoGlobal ==
    /\ pc = "loop"
    /\ k > Len(tramos)
    /\ IF resultados # <<>>
       THEN /\ y_model_global' =
                   Ensamblar(Tuple([i \in 1..Len(duty) |-> NaN]), resultados, 1)
            /\ y_model_interp' = Interpolate(y_model_global')
            /\ log' = Append(log, [kind |-> "OK", tramo |-> 0])
       ELSE /\ log' = Append(log, [kind |-> "INFO", tramo |-> 0])
            /\ UNCHANGED <<y_model_global, y_model_interp>>
    /\ pc' = "done"
    /\ UNCHANGED <<duty, rpm, tramos, k, resultados, fitCalls, visited>>
    /\ UNCHANGED <<hampelVars, firmwareVars, encoderVars, cleanVars>>

NextMain == DetectarEscalones \/ ProcessTramo \/ GraficoGlobal

SpecMain == InitMain /\ [][NextMain]_vars


Done == pc = "done"

\* sample index i (0-based) lies in the slice of an accepted fitted model
Covered(i) ==
    \E j \in 1..Len(resultados) :
        resultados[j].slice[1] <= i /\ i < resultados[j].slice[2]

FirstCovered == CHOOSE i \in 0..(Len(duty) - 1) :
                    Covered(i) /\ \A j \in 0..(i - 1) : ~Covered(j)
LastCovered  == CHOOSE i \in 0..(Len(duty) - 1) :
                    Covered(i) /\ \A j \in (i + 1)..(Len(duty) - 1) : ~Covered(j)

\* C4 as stated: after the interpolation step every index before the first
\* covered index, and every index after the last covered index, is still NaN.
C4_NeverExtrapolated ==
    (Done /\ resultados # <<>>) =>
        LET first == FirstCovered
            last  == LastCovered
        IN  \A i \in 0..(Len(duty) - 1) :
                (i < first \/ i > last) => IsNaN(At(y_model_interp, i))

\* C4 as amended: every index before the first covered index is still NaN;
\* every index after the last covered index holds the value of the trace at
\* the last covered index.
C4_LeadingKeptTrailingPadded ==
    (Done /\ resultados # <<>>) =>
        LET first == FirstCovered
            last  == LastCovered
        IN  \A i \in 0..(Len(duty) - 1) :
                /\ i < first => IsNaN(At(y_model_interp, i))
                /\ i > last =>
                      At(y_model_interp, i)
                          = <<At(y_model_global, last)[1], 1>>

C4_Witness ==
    /\ Done /\ resultados # <<>>
    /\ FirstCovered > 0 /\ IsNaN(At(y_model_interp, 0))
    /\ LastCovered < Len(duty) - 1
    /\ ~IsNaN(At(y_model_interp, Len(duty) - 1))

\* C5: the trace before interpolation is defined exactly at the covered
\* indices, and every undefined run with a defined neighbour on both sides is
\* filled with finite values on the straight line between the two neighbour
\* values, hence between those two values.
C5_GapsInterpolated ==
    (Done /\ resultados # <<>>) =>
        /\ \A i \in 0..(Len(duty) - 1) :
              IsNaN(At(y_model_global, i)) <=> ~Covered(i)
        /\ \A p \in 0..(Len(duty) - 1) : \A q \in (p + 2)..(Len(duty) - 1) :
              ( /\ Covered(p) /\ Covered(q)
                /\ \A j \in (p + 1)..(q - 1) : ~Covered(j) )
              => LET a == At(y_model_global, p)[1]
                     b == At(y_model_global, q)[1]
                 IN  \A i \in (p + 1)..(q - 1) :
                        LET v == At(y_model_interp, i)
                        IN  /\ ~IsNaN(v)
                            /\ v[2] > 0
                            /\ v[1] * (q - p)
                                 = v[2] * (a * (q - p) + (b - a) * (i - p))
                            /\ Min(a, b) * v[2] <= v[1]
                            /\ v[1] <= Max(a, b) * v[2]

C5_Witness ==
    /\ Done /\ resultados # <<>>
    /\ \E p \in 0..(Len(duty) - 1) : \E q \in (p + 2)..(Len(duty) - 1) :
          /\ Covered(p) /\ Covered(q)
          /\ \A j \in (p + 1)..(q - 1) : ~Covered(j)
          /\ At(y_model_global, p) # At(y_model_global, q)
          /\ ~IsNaN(At(y_model_interp, p + 1))
          /\ At(y_model_interp, p + 1) # <<At(y_model_global, p)[1], 1>>

\* the step of tramo s as section 3 of the specification defines it
StepOf(s) ==
    IF tramos[s][1] > 0
    THEN At(duty, tramos[s][1]) - At(duty, tramos[s][1] - 1)
    ELSE 0

\* the number of points of tramo s the outlier filter keeps
CleanCount(s) ==
    LET y == SubSeq(rpm, tramos[s][1] + 1, tramos[s][2])
        outlier == hampel(y, HampelWindow, HampelSigmas)
    IN  Cardinality({i \in 1..Len(y) : ~outlier[i]})

\* C6: every entry of resultados belongs to a tramo whose du is non-zero,
\* whose raw length is at least 8, whose cleaned point count is at least 5 and
\* whose fit returned without a convergence error; no tramo has two entries.
C6_FittedModelsAreValid ==
    /\ \A j \in 1..Len(resultados) :
          \E s \in 1..Len(tramos) :
              /\ resultados[j].slice = tramos[s]
              /\ s < k
              /\ StepOf(s) # 0
              /\ resultados[j].du = StepOf(s)
              /\ tramos[s][2] - tramos[s][1] >= 8
              /\ CleanCount(s) >= 5
              /\ visited[s] = "ok"
    /\ \A i, j \in 1..Len(resultados) :
          resultados[i].slice = resultados[j].slice => i = j

C6_Witness ==
    /\ Done
    /\ Len(resultados) >= 1
    /\ \E s \in 1..Len(tramos) : visited[s] = "short"
    /\ \E s \in 1..Len(tramos) : visited[s] = "noconv"

\* main is a sequential script: it keeps running until it ends.
FairSpecMain == SpecMain /\ WF_vars(NextMain)

SomeFitFailed == \E s \in 1..Len(tramos) : visited[s] = "noconv"

FailedFitSkipped ==
    \A s \in 1..Len(tramos) :
        visited[s] = "noconv" =>
            /\ fitCalls[s] = 1
            /\ \A j \in 1..Len(resultados) : resultados[j].slice # tramos[s]
            /\ k > s
            /\ pc \in {"loop", "done"}
            /\ pc = "done" =>
                  /\ \A s2 \in 1..Len(tramos) : visited[s2] # "pending"
                  /\ log[Len(log)].tramo = 0

\* C7: a fit that fails to converge is attempted exactly once, leaves its
\* tramo without a fitted model and does not stop the batch: the loop goes on
\* to every later tramo and the global step is reached.
C7_FailedFitIsSkipped ==
    /\ []FailedFitSkipped
    /\ SomeFitFailed ~> Done

C7_Witness ==
    /\ Done
    /\ \E s \in 1..Len(tramos) :
          /\ visited[s] = "noconv"
          /\ \E s2 \in (s + 1)..Len(tramos) : visited[s2] = "ok"
    /\ y_model_interp # <<>>

\* C8 as stated: every tramo skipped for insufficient data, be it for its raw
\* length or for its cleaned point count, is skipped with a warning for that
\* tramo.
C8_SkipsAreWarned ==
    \A s \in 1..Len(tramos) :
        visited[s] \in {"short", "few_clean"} =>
            \E m \in 1..Len(log) : log[m] = [kind |-> "WARN", tramo |-> s]

\* C8 as amended: a tramo skipped for its cleaned point count is skipped with
\* a warning for that tramo; a tramo skipped for its raw length is skipped
\* with no message at all.
C8_OnlyCleanCountSkipWarns ==
    \A s \in 1..Len(tramos) :
        /\ visited[s] = "few_clean" =>
              \E m \in 1..Len(log) : log[m] = [kind |-> "WARN", tramo |-> s]
        /\ visited[s] = "short" =>
              \A m \in 1..Len(log) : log[m].tramo # s

C8_Witness ==
    /\ Done
    /\ \E s \in 1..Len(tramos) :
          /\ visited[s] = "short"
          /\ tramos[s][2] - tramos[s][1] < 8
          /\ \A m \in 1..Len(log) : log[m].tramo # s
    /\ log # <<>>


\* ------------------------------------------------------ Rp2040_Mpy_code.py
pwm_max == 100         \* line 115
PasoMin == 1           \* line 197
PasoLimit == 100       \* line 197
U16Max == 65535        \* line 135

\* list(range(a, b, st)) for st # 0
RECURSIVE PyRange(_, _, _)
PyRange(a, b, st) ==
    IF (st > 0 /\ a >= b) \/ (st < 0 /\ a <= b) THEN <<>>
    ELSE <<a>> \o PyRange(a + st, b, st)

\* lines 116-117
Secuencia(paso) ==
    PyRange(0, pwm_max + 1, paso) \o PyRange(pwm_max - paso, 0 - 1, 0 - paso)

\* int(65535 * pwm_val / 100)
DutyU16(pwm_val) == (U16Max * pwm_val) \div 100

\* Numbers START may be given (line 195 accepts any string of digits): the
\* two nearest refused ones, steps that divide 100 and steps that do not.
Pasos == {0, 1, 20, 30, 50, 99, PasoLimit}

\* lines 193-200 and 112-130: START <paso>.  A paso outside 1..99 is refused;
\* otherwise ejecutar_captura builds the sweep, creates the file and enters
\* its loop.
CmdStart ==
    /\ fpc = "prompt"
    /\ \E paso \in Pasos :
          IF PasoMin <= paso /\ paso < PasoLimit
          THEN /\ paso_pwm' = paso
               /\ modo_captura' = TRUE
               /\ secuencia' = Secuencia(paso)
               /\ pos' = 1
               /\ aplicados' = <<>>
               /\ fin' = "none"
               /\ fpc' = "captura"
               /\ UNCHANGED <<pwm_duty, pwm_manual>>
          ELSE UNCHANGED firmwareVars
    /\ UNCHANGED <<analysisVars, hampelVars, encoderVars, cleanVars>>

\* lines 121-127: the file cannot be created; ejecutar_captura returns.
CmdStartFileError ==
    /\ fpc = "prompt"
    /\ \E paso \in Pasos :
          /\ PasoMin <= paso /\ paso < PasoLimit
          /\ paso_pwm' = paso
          /\ secuencia' = Secuencia(paso)
    /\ modo_captura' = FALSE
    /\ aplicados' = <<>>
    /\ fin' = "file_error"
    /\ UNCHANGED <<pos, pwm_duty, pwm_manual, fpc>>
    /\ UNCHANGED <<analysisVars, hampelVars, encoderVars, cleanVars>>

\* lines 134-146: one pass of the for loop: the duty cycle is applied and
\* held for TIEMPO_ENTRE_ESCALONES while the samples are written.
AplicarPwm ==
    /\ fpc = "captura"
    /\ pos <= Len(secuencia)
    /\ pwm_duty' = DutyU16(secuencia[pos])
    /\ aplicados' = Append(aplicados, secuencia[pos])
    /\ pos' = pos + 1
    /\ UNCHANGED <<paso_pwm, secuencia, modo_captura, pwm_manual, fin, fpc>>
    /\ UNCHANGED <<analysisVars, hampelVars, encoderVars, cleanVars>>

\* lines 147-153: Ctrl-C during the loop; the finally block runs and
\* ejecutar_captura returns to the console.
CapturaInterrumpida ==
    /\ fpc = "captura"
    /\ pwm_duty' = 0
    /\ modo_captura' = FALSE
    /\ fin' = "interrumpida"
    /\ fpc' = "prompt"
    /\ UNCHANGED <<paso_pwm, secuencia, pos, aplicados, pwm_manual>>
    /\ UNCHANGED <<analysisVars, hampelVars, encoderVars, cleanVars>>

\* lines 142-146, 149-153: a sample cannot be written; the exception is raised
\* again, the finally block runs, and the exception leaves the console loop
\* (which catches KeyboardInterrupt only): the program ends.
CapturaErrorEscritura ==
    /\ fpc = "captura"
    /\ aplicados # <<>>
    /\ pwm_duty' = 0
    /\ modo_captura' = FALSE
    /\ fin' = "error_escritura"
    /\ fpc' = "exited"
    /\ UNCHANGED <<paso_pwm, secuencia, pos, aplicados, pwm_manual>>
    /\ UNCHANGED <<analysisVars, hampelVars, encoderVars, cleanVars>>

\* lines 134, 149-153: the sweep is exhausted; the finally block runs.
FinCaptura ==
    /\ fpc = "captura"
    /\ pos > Len(secuencia)
    /\ pwm_duty' = 0
    /\ modo_captura' = FALSE
    /\ fin' = "completa"
    /\ fpc' = "prompt"
    /\ UNCHANGED <<paso_pwm, secuencia, pos, aplicados, pwm_manual>>
    /\ UNCHANGED <<analysisVars, hampelVars, encoderVars, cleanVars>>

\* The numbers PWM may be given (line 206 accepts any string of digits).
ValoresManual == {0, 40, 100, 101}

\* lines 112-130, 218-219: Ctrl-C arrives in ejecutar_captura after line 113
\* and before the try of line 132 (while the file is created or a message is
\* printed): no handler of ejecutar_captura is active, the console loop catches
\* the exception.
CmdStartInterrumpido ==
    /\ fpc = "prompt"
    /\ \E paso \in Pasos :
          /\ PasoMin <= paso /\ paso < PasoLimit
          /\ paso_pwm' = paso
          /\ secuencia' = Secuencia(paso)
    /\ modo_captura' = TRUE
    /\ aplicados' = <<>>
    /\ fin' = "interrumpida_antes"
    /\ UNCHANGED <<pos, pwm_duty, pwm_manual, fpc>>
    /\ UNCHANGED <<analysisVars, hampelVars, encoderVars, cleanVars>>

\* lines 149-151, 218-219: Ctrl-C arrives while the finally block runs, before
\* line 150 (apagado = FALSE) or between lines 150 and 151 (apagado = TRUE);
\* the rest of the block is not executed and the console loop catches the
\* exception.
CapturaInterrumpidaEnFinally ==
    /\ fpc = "captura"
    /\ \E apagado \in BOOLEAN :
          pwm_duty' = IF apagado THEN 0 ELSE pwm_duty
    /\ fin' = "interrumpida_finally"
    /\ fpc' = "prompt"
    /\ UNCHANGED <<paso_pwm, secuencia, pos, aplicados, modo_captura,
                   pwm_manual>>
    /\ UNCHANGED <<analysisVars, hampelVars, encoderVars, cleanVars>>

\* lines 204-213 and 164-172: PWM <valor>.  A value outside 0..100 is refused;
\* otherwise modo_manual applies it and enters its loop.
CmdPwm ==
    /\ fpc = "prompt"
    /\ \E val \in ValoresManual :
          IF 0 <= val /\ val <= pwm_max
          THEN /\ pwm_manual' = val
               /\ pwm_duty' = DutyU16(val)
               /\ fpc' = "manual"
          ELSE UNCHANGED <<pwm_manual, pwm_duty, fpc>>
    /\ UNCHANGED <<paso_pwm, secuencia, pos, modo_captura, aplicados, fin>>
    /\ UNCHANGED <<analysisVars, hampelVars, encoderVars, cleanVars>>

\* lines 164-169, 218-219: Ctrl-C arrives in modo_manual after line 166 and
\* before the try of line 171 (while line 168 prints): the handler of
\* modo_manual is not active, the console loop catches the exception.
CmdPwmInterrumpido ==
    /\ fpc = "prompt"
    /\ \E val \in ValoresManual :
          /\ 0 <= val /\ val <= pwm_max
          /\ pwm_manual' = val
          /\ pwm_duty' = DutyU16(val)
    /\ UNCHANGED <<paso_pwm, secuencia, pos, modo_captura, aplicados, fin,
                   fpc>>
    /\ UNCHANGED <<analysisVars, hampelVars, encoderVars, cleanVars>>

\* lines 172-180: Ctrl-C in the loop of modo_manual; its handler switches the
\* PWM off and modo_manual returns to the console.
ManualInterrumpido ==
    /\ fpc = "manual"
    /\ pwm_duty' = 0
    /\ pwm_manual' = 0
    /\ fpc' = "prompt"
    /\ UNCHANGED <<paso_pwm, secuencia, pos, modo_captura, aplicados, fin>>
    /\ UNCHANGED <<analysisVars, hampelVars, encoderVars, cleanVars>>

\* lines 177-178, 218-219: Ctrl-C in the loop of modo_manual and once more
\* while its handler prints (line 178), before line 179.
ManualInterrumpidoEnHandler ==
    /\ fpc = "manual"
    /\ fpc' = "prompt"
    /\ UNCHANGED <<paso_pwm, secuencia, pos, pwm_duty, modo_captura,
                   pwm_manual, aplicados, fin>>
    /\ UNCHANGED <<analysisVars, hampelVars, encoderVars, cleanVars>>

\* lines 188-191: EXIT switches the PWM off and leaves the console loop.
CmdExit ==
    /\ fpc = "prompt"
    /\ pwm_duty' = 0
    /\ fpc' = "exited"
    /\ UNCHANGED <<paso_pwm, secuencia, pos, modo_captura, pwm_manual,
                   aplicados, fin>>
    /\ UNCHANGED <<analysisVars, hampelVars, encoderVars, cleanVars>>

InitFirmware ==
    /\ paso_pwm = 0 /\ secuencia = <<>> /\ pos = 0 /\ pwm_duty = 0
    /\ modo_captura = FALSE /\ pwm_manual = 0
    /\ aplicados = <<>> /\ fin = "none"
    /\ fpc = "prompt"
    /\ AnalysisIdle /\ HampelIdle /\ EncoderIdle /\ CleanIdle

NextFirmware ==
    \/ CmdStart
    \/ CmdStartFileError
    \/ AplicarPwm
    \/ CapturaInterrumpida
    \/ CapturaErrorEscritura
    \/ FinCaptura
    \/ CmdStartInterrumpido
    \/ CapturaInterrumpidaEnFinally
    \/ CmdPwm
    \/ CmdPwmInterrumpido
    \/ ManualInterrumpido
    \/ ManualInterrumpidoEnHandler
    \/ CmdExit

SpecFirmware == InitFirmware /\ [][NextFirmware]_vars

\* position of the (first) largest entry of the non-empty sequence a
ArgMax(a) ==
    CHOOSE m \in 1..Len(a) :
        /\ \A j \in 1..Len(a) : a[j] <= a[m]
        /\ \A j \in 1..(m - 1) : a[j] < a[m]

\* C10: for every accepted paso the duty cycles applied by a capture that runs
\* to its end start at 0, reach 100, end at 0, strictly increase up to the
\* maximum and strictly decrease after it.
C10_RampUpAndDown ==
    (fpc = "prompt" /\ fin = "completa") =>
        LET m == ArgMax(aplicados)
            n == Len(aplicados)
        IN  /\ aplicados[1] = 0
            /\ aplicados[m] = pwm_max
            /\ aplicados[n] = 0
            /\ \A i \in 1..(m - 1) : aplicados[i] < aplicados[i + 1]
            /\ \A i \in m..(n - 1) : aplicados[i] > aplicados[i + 1]


\* ------------------------------------------- First_Code_Mpy.py : the encoder
\* The falling-edge interrupt of the sensor pin runs incrementar_contador; the
\* main loop calls calcular_rpm every MEDICION_INTERVALO_MS.  The handler runs
\* between any two statements of the main code; the main code never runs
\* inside the handler.
MaxPulsos == 5                \* interrupts fired in one behaviour
ENCODER_HUECOS == 20          \* line 28
MEDICION_INTERVALO_MS == 4    \* line 30
MsPorMinuto == 60000          \* line 75

\* lines 74-75: rpm = (contador / ENCODER_HUECOS) * (60000 / INTERVALO)
RpmDe(c) == (c * MsPorMinuto) \div (ENCODER_HUECOS * MEDICION_INTERVALO_MS)

\* lines 50-59: the interrupt handler, at any position of the main code.
IncrementarContador ==
    /\ epc \in {"poll", "leido"}
    /\ disparos < MaxPulsos
    /\ contador' = contador + 1
    /\ disparos' = disparos + 1
    /\ UNCHANGED <<leido, rpm_calc, usados, epc>>
    /\ UNCHANGED <<analysisVars, hampelVars, firmwareVars, cleanVars>>

\* lines 74-75: calcular_rpm reads contador and computes rpm from it.
CalcularRpmLee ==
    /\ epc = "poll"
    /\ leido' = contador
    /\ epc' = "leido"
    /\ UNCHANGED <<contador, rpm_calc, disparos, usados>>
    /\ UNCHANGED <<analysisVars, hampelVars, firmwareVars, cleanVars>>

\* lines 76-77: calcular_rpm resets contador and returns the rpm computed
\* from the value it read.
CalcularRpmReinicia ==
    /\ epc = "leido"
    /\ contador' = 0
    /\ rpm_calc' = RpmDe(leido)
    /\ usados' = usados + leido
    /\ epc' = "poll"
    /\ UNCHANGED <<leido, disparos>>
    /\ UNCHANGED <<analysisVars, hampelVars, firmwareVars, cleanVars>>

InitEncoder ==
    /\ contador = 0 /\ leido = 0 /\ rpm_calc = 0
    /\ disparos = 0 /\ usados = 0 /\ epc = "poll"
    /\ AnalysisIdle /\ HampelIdle /\ FirmwareIdle /\ CleanIdle

NextEncoder ==
    \/ IncrementarContador
    \/ CalcularRpmLee
    \/ CalcularRpmReinicia

SpecEncoder == InitEncoder /\ [][NextEncoder]_vars

\* C11: no pulse is lost or counted twice: at all times the counts used by
\* the completed calls of calcular_rpm plus the current value of contador add
\* up to the number of interrupts that have fired.
C11_NoPulseLost == usados + contador = disparos


\* C12: with the PWM duty 0 at start-up, whenever the firmware waits at the
\* console prompt or has exited, the PWM duty is 0 and modo_captura is False,
\* whatever commands were given and wherever a Ctrl-C or a write error
\* arrived.
C12_SafeAtPrompt ==
    fpc \in {"prompt", "exited"} => (pwm_duty = 0 /\ modo_captura = FALSE)


\* ------------------------------------ main : the cleaning of a single tramo
\* Lines 147-155 on a tramo that passed line 136, for every speed record it
\* may hold.
MaxSegLen == 13        \* longest tramo
SegValues == {0, 1}

\* lines 151-152: y[mask], the samples hampel did not flag, in order
YClean(y, outlier) ==
    LET keep == SelectSeq([i \in 1..Len(y) |-> i], LAMBDA i : ~outlier[i])
    IN  [j \in 1..Len(keep) |-> y[keep[j]]]

\* lines 147-155: hampel(y, 7, 3.0), its locals kept as in Hampel, then the
\* selection of the clean samples and the test of their number.
LimpiarTramo ==
    /\ pc = "limpiar"
    /\ med_rolling' = MedRolling(series, window_size)
    /\ diff' = Diff(series, med_rolling')
    /\ mad' = Mad(diff', window_size)
    /\ mask' = [i \in 1..Len(series) |-> Flag(diff'[i], mad'[i], n_sigmas)]
    /\ y_clean' = YClean(series, mask')
    /\ rama' = IF Len(y_clean') < MinClean THEN "few_clean" ELSE "fit"
    /\ log' = IF Len(y_clean') < MinClean
              THEN <<[kind |-> "WARN", tramo |-> 1]>> ELSE <<>>
    /\ pc' = "limpio"
    /\ UNCHANGED <<series, window_size, n_sigmas>>
    /\ UNCHANGED <<duty, rpm, tramos, k, resultados, fitCalls, visited,
                   y_model_global, y_model_interp>>
    /\ UNCHANGED <<firmwareVars, encoderVars>>

InitLimpiar ==
    /\ series \in UNION {[1..m -> SegValues] : m \in MinRawLen..MaxSegLen}
    /\ window_size = HampelWindow
    /\ n_sigmas = HampelSigmas
    /\ med_rolling = <<>> /\ diff = <<>> /\ mad = <<>> /\ mask = <<>>
    /\ duty = <<>> /\ rpm = <<>> /\ tramos = <<>> /\ k = 0
    /\ resultados = <<>> /\ log = <<>> /\ fitCalls = <<>> /\ visited = <<>>
    /\ y_model_global = <<>> /\ y_model_interp = <<>> /\ pc = "limpiar"
    /\ FirmwareIdle /\ EncoderIdle /\ CleanIdle

SpecLimpiar == InitLimpiar /\ [][LimpiarTramo]_vars

\* C13: with window 7 hampel never removes one of the first 6 or last 6
\* samples of a tramo, so a tramo of raw length L >= 8 keeps at least
\* min(L, 12) >= 5 samples, the first and the last kept samples are the first
\* and the last raw samples, and the `fewer than 5 clean samples` branch is
\* not taken.
C13_EdgesKept ==
    pc = "limpio" =>
        LET L == Len(series)
            borde == HampelWindow - 1
        IN  /\ L >= MinRawLen
            /\ \A i \in 1..L : (i <= borde \/ i > L - borde) => ~mask[i]
            /\ Len(y_clean) >= Min(L, 2 * borde)
            /\ Min(L, 2 * borde) >= MinClean
            /\ Len(y_clean) = Cardinality({i \in 1..L : ~mask[i]})
            /\ y_clean[1] = series[1]
            /\ y_clean[Len(y_clean)] = series[L]
            /\ rama = "fit" /\ log = <<>>

\* a tramo of 13 samples whose middle sample is removed while a deviating
\* sample at each edge is kept
C13_Witness ==
    /\ pc = "limpio"
    /\ Len(series) = 13
    /\ mask[7]
    /\ series[1] # series[2]
    /\ series[13] # series[12]
    /\ Len(y_clean) = 12

====
